---------------------------- MODULE Spec2Model ----------------------------
(***************************************************************************)
(* A model of egg.js: the Egg parser (parseExpression, parseApply,         *)
(* skipSpace, parse), the evaluator (evaluate), the special forms, the     *)
(* global environment topEnv and the driver run.                           *)
(*                                                                         *)
(* JavaScript strings are sequences of one-character strings; JavaScript   *)
(* values are tagged records (see the section "Values").                   *)
(***************************************************************************)
EXTENDS Integers, Sequences, FiniteSets, TLC

VARIABLES text, parsed, heap, out, returned, escaped, trace, lastOp, nruns,
          hung, defined

vars == <<text, parsed, heap, out, returned, escaped, trace, lastOp, nruns,
          hung, defined>>

RECURSIVE parseExpression(_), parseApply(_, _), parseArgs(_, _)
RECURSIVE parseToken(_), parseApplyAt(_, _), parseArgsPush(_, _)
RECURSIVE parseArgsNext(_, _)
RECURSIVE Number(_), PrefixLen(_, _, _), Gcd(_, _), NatToString(_)
RECURSIVE TrimRight(_), StrLess(_, _), In(_, _, _), Get(_, _, _)
RECURSIVE Ancestors(_, _), evaluate(_, _, _, _), bindParams(_, _, _, _, _)
RECURSIVE mapArgs(_, _, _, _, _, _), whileLoop(_, _, _, _)
RECURSIVE doLoop(_, _, _, _, _, _), JoinLines(_)
RECURSIVE mapArgsNext(_, _, _, _, _, _), whileTest(_, _, _, _)
RECURSIVE whileBody(_, _, _, _), doLoopNext(_, _, _, _, _)

(***************************************************************************)
(* Bounds of the model.                                                    *)
(***************************************************************************)
\* Longest text the parser specification enumerates.
MaxTextLen == 5

\* Most calls of the host in one behaviour.
MaxRuns == 2

\* Most iterations of while loops in one evaluation.
MaxLoop == 4

(***************************************************************************)
(* Characters and the character classes of the regular expressions.        *)
(***************************************************************************)
Digits == <<"0", "1", "2", "3", "4", "5", "6", "7", "8", "9">>

Letters == {"a", "b", "c", "d", "e", "f", "g", "h", "i", "j", "k", "l", "m",
            "n", "o", "p", "q", "r", "s", "t", "u", "v", "w", "x", "y", "z",
            "A", "B", "C", "D", "E", "F", "G", "H", "I", "J", "K", "L", "M",
            "N", "O", "P", "Q", "R", "S", "T", "U", "V", "W", "X", "Y", "Z"}

\* \s of the regular expressions (the white space the model's texts use).
IsSpace(c) == c \in {" ", "\t", "\n", "\r"}

\* \d
IsDigit(c) == \E i \in 1..10 : Digits[i] = c

\* \w, which decides the word boundary \b
IsWordCh(c) == IsDigit(c) \/ c \in Letters \/ c = "_"

\* [^\s(),"]
IsNameCh(c) == ~IsSpace(c) /\ c \notin {"(", ")", ",", "\""}

\* [^"]
IsNotQuote(c) == c # "\""

DigitVal(c) == (CHOOSE i \in 1..10 : Digits[i] = c) - 1

\* The length of the longest prefix of s, counted from position i, whose
\* characters all are of class cls (1: space, 2: digit, 3: name, 4: non-quote).
InClass(cls, c) ==
  CASE cls = 1 -> IsSpace(c)
    [] cls = 2 -> IsDigit(c)
    [] cls = 3 -> IsNameCh(c)
    [] cls = 4 -> IsNotQuote(c)

PrefixLen(cls, s, i) ==
  IF i <= Len(s) /\ InClass(cls, s[i]) THEN 1 + PrefixLen(cls, s, i + 1) ELSE 0

Slice(s, from) == SubSeq(s, from + 1, Len(s))

(***************************************************************************)
(* Values.  A JavaScript number is an extended rational p/q (q = 1 for an  *)
(* integer, 0/0 for NaN, 1/0 and -1/0 for the infinities); a string is a   *)
(* sequence of characters.                                                 *)
(***************************************************************************)
Num(n) == [t |-> "num", p |-> n, q |-> 1]
Str(cs) == [t |-> "str", s |-> cs]
Bool(b) == [t |-> "bool", b |-> b]
Undefined == [t |-> "undef"]

\* Number(match[0]) for a run of digits
Number(ds) ==
  IF ds = <<>> THEN 0
  ELSE 10 * Number(SubSeq(ds, 1, Len(ds) - 1)) + DigitVal(ds[Len(ds)])

(***************************************************************************)
(* Errors.  A thrown error is a record of its constructor's name and its   *)
(* message.                                                                *)
(***************************************************************************)
SyntaxErrorName == <<"S", "y", "n", "t", "a", "x", "E", "r", "r", "o", "r">>

\* "Unexpected syntax: "
MsgUnexpectedSyntax ==
  <<"U", "n", "e", "x", "p", "e", "c", "t", "e", "d", " ", "s", "y", "n", "t",
    "a", "x", ":", " ">>

\* "Expected ',' or ')'"
MsgExpectedCommaOrParen ==
  <<"E", "x", "p", "e", "c", "t", "e", "d", " ", "'", ",", "'", " ", "o", "r",
    " ", "'", ")", "'">>

\* "Unexpected text after program"
MsgUnexpectedText ==
  <<"U", "n", "e", "x", "p", "e", "c", "t", "e", "d", " ", "t", "e", "x", "t",
    " ", "a", "f", "t", "e", "r", " ", "p", "r", "o", "g", "r", "a", "m">>

\* "ReferenceError"
ReferenceErrorName ==
  <<"R", "e", "f", "e", "r", "e", "n", "c", "e", "E", "r", "r", "o", "r">>

\* "TypeError"
TypeErrorName ==
  <<"T", "y", "p", "e", "E", "r", "r", "o", "r">>

\* "Undefined variable: "
MsgUndefinedVariable ==
  <<"U", "n", "d", "e", "f", "i", "n", "e", "d", " ", "v", "a", "r", "i",
    "a", "b", "l", "e", ":", " ">>

\* "Applying a non-function."
MsgApplyingNonFunction ==
  <<"A", "p", "p", "l", "y", "i", "n", "g", " ", "a", " ", "n", "o", "n",
    "-", "f", "u", "n", "c", "t", "i", "o", "n", ".">>

\* "Bad number of args to if"
MsgBadIf ==
  <<"B", "a", "d", " ", "n", "u", "m", "b", "e", "r", " ", "o", "f", " ",
    "a", "r", "g", "s", " ", "t", "o", " ", "i", "f">>

\* "Bad number of args to while"
MsgBadWhile ==
  <<"B", "a", "d", " ", "n", "u", "m", "b", "e", "r", " ", "o", "f", " ",
    "a", "r", "g", "s", " ", "t", "o", " ", "w", "h", "i", "l", "e">>

\* "Bad use of define"
MsgBadDefine ==
  <<"B", "a", "d", " ", "u", "s", "e", " ", "o", "f", " ", "d", "e", "f",
    "i", "n", "e">>

\* "Functions need a body"
MsgNeedBody ==
  <<"F", "u", "n", "c", "t", "i", "o", "n", "s", " ", "n", "e", "e", "d",
    " ", "a", " ", "b", "o", "d", "y">>

\* "Arg names must be words"
MsgArgNames ==
  <<"A", "r", "g", " ", "n", "a", "m", "e", "s", " ", "m", "u", "s", "t",
    " ", "b", "e", " ", "w", "o", "r", "d", "s">>

\* "Wrong number of arguments. Expected "
MsgWrongNumber ==
  <<"W", "r", "o", "n", "g", " ", "n", "u", "m", "b", "e", "r", " ", "o",
    "f", " ", "a", "r", "g", "u", "m", "e", "n", "t", "s", ".", " ", "E",
    "x", "p", "e", "c", "t", "e", "d", " ">>

\* " got "
MsgGot ==
  <<" ", "g", "o", "t", " ">>


SyntaxError(message) == [name |-> SyntaxErrorName, message |-> message]
ReferenceError(message) == [name |-> ReferenceErrorName, message |-> message]
TypeError(message) == [name |-> TypeErrorName, message |-> message]

\* error.toString()
ErrorToString(error) == error.name \o <<":", " ">> \o error.message

(***************************************************************************)
(* The parser.  A parse result is [ok |-> TRUE, expr, rest] or, when a     *)
(* SyntaxError is thrown, [ok |-> FALSE, error].                           *)
(***************************************************************************)
ParseThrow(error) == [ok |-> FALSE, error |-> error]

skipSpace(string) == Slice(string, PrefixLen(1, string, 1))

\* The length of the match of /^"([^"]*)"/, 0 when there is none.
MatchString(program) ==
  IF program # <<>> /\ program[1] = "\""
       /\ PrefixLen(4, program, 2) + 2 <= Len(program)
  THEN PrefixLen(4, program, 2) + 2
  ELSE 0

\* n digits lead program: n if they are some and end at a word boundary.
DigitsAtBoundary(program, n) ==
  IF n > 0 /\ (n = Len(program) \/ ~IsWordCh(program[n + 1])) THEN n ELSE 0

\* The length of the match of /^\d+\b/, 0 when there is none: the digits
\* must end at a word boundary.
MatchNumber(program) == DigitsAtBoundary(program, PrefixLen(2, program, 1))

\* The length of the match of /^[^\s(),"]+/, 0 when there is none.
MatchWord(program) == PrefixLen(3, program, 1)

parseExpression(program0) == parseToken(skipSpace(program0))

\* The three regular expressions of parseExpression, tried in order on the
\* program with its leading space skipped.
parseToken(program) ==
  IF MatchString(program) > 0
  THEN parseApply([type |-> "value",
                   value |-> Str(SubSeq(program, 2, MatchString(program) - 1))],
                  Slice(program, MatchString(program)))
  ELSE IF MatchNumber(program) > 0
  THEN parseApply([type |-> "value",
                   value |-> Num(Number(SubSeq(program, 1,
                                               MatchNumber(program))))],
                  Slice(program, MatchNumber(program)))
  ELSE IF MatchWord(program) > 0
  THEN parseApply([type |-> "word",
                   name |-> SubSeq(program, 1, MatchWord(program))],
                  Slice(program, MatchWord(program)))
  ELSE ParseThrow(SyntaxError(MsgUnexpectedSyntax \o program))

parseApply(expr, program0) == parseApplyAt(expr, skipSpace(program0))

\* parseApply on the program with its leading space skipped.
parseApplyAt(expr, program) ==
  IF program = <<>> \/ program[1] # "("
  THEN [ok |-> TRUE, expr |-> expr, rest |-> program]
  ELSE parseArgs([type |-> "apply", operator |-> expr, args |-> <<>>],
                 skipSpace(Slice(program, 1)))

\* The while loop of parseApply and the return that follows it.
parseArgs(expr, program) ==
  IF program # <<>> /\ program[1] = ")"
  THEN parseApply(expr, Slice(program, 1))
  ELSE parseArgsPush(expr, parseExpression(program))

\* The loop's body after its call of parseExpression, which gave arg.
parseArgsPush(expr, arg) ==
  IF ~arg.ok THEN arg
  ELSE parseArgsNext([expr EXCEPT !.args = Append(@, arg.expr)],
                     skipSpace(arg.rest))

\* The loop's body after the argument is pushed: the ',' or ')' expected.
parseArgsNext(expr, program) ==
  IF program # <<>> /\ program[1] = ","
  THEN parseArgs(expr, skipSpace(Slice(program, 1)))
  ELSE IF program = <<>> \/ program[1] # ")"
  THEN ParseThrow(SyntaxError(MsgExpectedCommaOrParen))
  ELSE parseArgs(expr, program)

\* parse after its call of parseExpression, which gave result.
parseEnd(result) ==
  IF ~result.ok THEN result
  ELSE IF Len(skipSpace(result.rest)) > 0
  THEN ParseThrow(SyntaxError(MsgUnexpectedText))
  ELSE [ok |-> TRUE, expr |-> result.expr]

parse(program) == parseEnd(parseExpression(program))

(***************************************************************************)
(* The host's primitive operations on values, as the built-in operators    *)
(* use them.  Numbers are exact: the model's programs stay within the      *)
(* integers and simple quotients a double represents; a negative zero is   *)
(* not told from zero, and the decimal text of a non-integer is left       *)
(* abstract (NumberToString).                                              *)
(***************************************************************************)
NaN == [t |-> "num", p |-> 0, q |-> 0]
Infinity(sign) == [t |-> "num", p |-> sign, q |-> 0]

IsNaN(x) == x.q = 0 /\ x.p = 0
IsInf(x) == x.q = 0 /\ x.p # 0
IsZero(x) == x.q # 0 /\ x.p = 0
Sign(n) == IF n < 0 THEN -1 ELSE IF n > 0 THEN 1 ELSE 0
Abs(n) == IF n < 0 THEN -n ELSE n

Gcd(a, b) == IF b = 0 THEN a ELSE Gcd(b, a % b)

\* The rational p/q (q # 0) in lowest terms with a positive denominator.
Reduce(p, q, g) ==
  [t |-> "num", p |-> Sign(q) * (p \div g), q |-> Abs(q) \div g]

Ratio(p, q) == Reduce(p, q, Gcd(Abs(p), Abs(q)))

NumAdd(x, y) ==
  IF IsNaN(x) \/ IsNaN(y) THEN NaN
  ELSE IF IsInf(x) THEN (IF IsInf(y) /\ y.p # x.p THEN NaN ELSE x)
  ELSE IF IsInf(y) THEN y
  ELSE Ratio(x.p * y.q + y.p * x.q, x.q * y.q)

NumNeg(x) == [x EXCEPT !.p = -@]

NumSub(x, y) == NumAdd(x, NumNeg(y))

NumMul(x, y) ==
  IF IsNaN(x) \/ IsNaN(y) THEN NaN
  ELSE IF IsInf(x) \/ IsInf(y)
  THEN (IF IsZero(x) \/ IsZero(y) THEN NaN ELSE Infinity(Sign(x.p) * Sign(y.p)))
  ELSE Ratio(x.p * y.p, x.q * y.q)

NumDiv(x, y) ==
  IF IsNaN(x) \/ IsNaN(y) THEN NaN
  ELSE IF IsInf(x)
  THEN (IF IsInf(y) THEN NaN
        ELSE Infinity(Sign(x.p) * (IF y.p < 0 THEN -1 ELSE 1)))
  ELSE IF IsInf(y) THEN Num(0)
  ELSE IF IsZero(y) THEN (IF IsZero(x) THEN NaN ELSE Infinity(Sign(x.p)))
  ELSE Ratio(x.p * y.q, x.q * y.p)

NumLess(x, y) ==
  IF IsNaN(x) \/ IsNaN(y) THEN FALSE
  ELSE IF IsInf(x) /\ IsInf(y) THEN x.p < y.p
  ELSE x.p * y.q < y.p * x.q

NumEq(x, y) == ~IsNaN(x) /\ ~IsNaN(y) /\ x = y

\* The decimal digits of a natural number.
NatToString(n) ==
  IF n < 10 THEN <<Digits[n + 1]>>
  ELSE NatToString(n \div 10) \o <<Digits[(n % 10) + 1]>>

\* ToString of a number.  The decimal expansion of a non-integer is not
\* computed: it is the one-piece text <<"p/q">>, which no program of the
\* model inspects.
NumberToString(x) ==
  IF IsNaN(x) THEN <<"N", "a", "N">>
  ELSE IF IsInf(x)
  THEN (IF x.p < 0 THEN <<"-">> ELSE <<>>)
         \o <<"I", "n", "f", "i", "n", "i", "t", "y">>
  ELSE IF x.q = 1
  THEN (IF x.p < 0 THEN <<"-">> ELSE <<>>) \o NatToString(Abs(x.p))
  ELSE <<ToString(x.p) \o "/" \o ToString(x.q)>>

\* The source text a function converts to: the engine's, left abstract.
FunctionSource(f) == <<"function">>

ToPrimitive(v) == IF v.t = "function" THEN Str(FunctionSource(v)) ELSE v

\* ToNumber of a string: white space trimmed, the empty text is 0, an
\* optionally signed run of digits is its number, any other text NaN (the
\* decimal, hexadecimal and exponent forms are outside the model's programs).
TrimRight(cs) ==
  IF cs # <<>> /\ IsSpace(cs[Len(cs)])
  THEN TrimRight(SubSeq(cs, 1, Len(cs) - 1)) ELSE cs

DigitsToNumber(sign, ds) ==
  IF ds # <<>> /\ PrefixLen(2, ds, 1) = Len(ds) THEN Num(sign * Number(ds))
  ELSE NaN

TrimmedToNumber(cs) ==
  IF cs = <<>> THEN Num(0)
  ELSE IF cs[1] = "-" THEN DigitsToNumber(-1, Tail(cs))
  ELSE IF cs[1] = "+" THEN DigitsToNumber(1, Tail(cs))
  ELSE DigitsToNumber(1, cs)

StringToNumber(cs) == TrimmedToNumber(TrimRight(skipSpace(cs)))

\* ToNumber of a primitive value
ToNumber(v) ==
  CASE v.t = "num" -> v
    [] v.t = "bool" -> IF v.b THEN Num(1) ELSE Num(0)
    [] v.t = "undef" -> NaN
    [] v.t = "str" -> StringToNumber(v.s)

\* ToString of a primitive value
ToStr(v) ==
  CASE v.t = "str" -> v.s
    [] v.t = "num" -> NumberToString(v)
    [] v.t = "bool" -> IF v.b THEN <<"t", "r", "u", "e">>
                       ELSE <<"f", "a", "l", "s", "e">>
    [] v.t = "undef" -> <<"u", "n", "d", "e", "f", "i", "n", "e", "d">>

\* The code unit order of the characters strings are compared by (the
\* backquote, which a TLA+ string cannot hold, keeps its place by name).
Ascii ==
  <<"\t", "\n", "\r", " ", "!", "\"", "#", "$", "%", "&", "'", "(", ")", "*",
    "+", ",", "-", ".", "/", "0", "1", "2", "3", "4", "5", "6", "7", "8", "9",
    ":", ";", "<", "=", ">", "?", "@", "A", "B", "C", "D", "E", "F", "G", "H",
    "I", "J", "K", "L", "M", "N", "O", "P", "Q", "R", "S", "T", "U", "V", "W",
    "X", "Y", "Z", "[", "\\", "]", "^", "_", "backquote", "a", "b", "c", "d", "e",
    "f", "g", "h", "i", "j", "k", "l", "m", "n", "o", "p", "q", "r", "s", "t",
    "u", "v", "w", "x", "y", "z", "{", "|", "}", "~">>

CharCode(c) ==
  IF \E i \in 1..Len(Ascii) : Ascii[i] = c
  THEN CHOOSE i \in 1..Len(Ascii) : Ascii[i] = c
  ELSE Len(Ascii) + 1

StrLess(a, b) ==
  IF b = <<>> THEN FALSE
  ELSE IF a = <<>> THEN TRUE
  ELSE IF a[1] = b[1] THEN StrLess(Tail(a), Tail(b))
  ELSE CharCode(a[1]) < CharCode(b[1])

\* a + b
AddPrimitives(x, y) ==
  IF x.t = "str" \/ y.t = "str" THEN Str(ToStr(x) \o ToStr(y))
  ELSE NumAdd(ToNumber(x), ToNumber(y))

JsAdd(a, b) == AddPrimitives(ToPrimitive(a), ToPrimitive(b))

\* a - b, a * b, a / b
JsSub(a, b) == NumSub(ToNumber(ToPrimitive(a)), ToNumber(ToPrimitive(b)))
JsMul(a, b) == NumMul(ToNumber(ToPrimitive(a)), ToNumber(ToPrimitive(b)))
JsDiv(a, b) == NumDiv(ToNumber(ToPrimitive(a)), ToNumber(ToPrimitive(b)))

\* a < b, a > b
LessPrimitives(x, y) ==
  IF x.t = "str" /\ y.t = "str" THEN Bool(StrLess(x.s, y.s))
  ELSE Bool(NumLess(ToNumber(x), ToNumber(y)))

JsLess(a, b) == LessPrimitives(ToPrimitive(a), ToPrimitive(b))

JsGreater(a, b) == JsLess(b, a)

\* a == b, the loose equality
EqualPrimitives(x, y) ==
  IF x.t = "str" /\ y.t = "str" THEN Bool(x.s = y.s)
  ELSE Bool(NumEq(ToNumber(x), ToNumber(y)))

JsEquals(a, b) ==
  IF a.t = b.t
  THEN (IF a.t = "num" THEN Bool(NumEq(a, b)) ELSE Bool(a = b))
  ELSE IF a.t = "undef" \/ b.t = "undef" THEN Bool(FALSE)
  ELSE EqualPrimitives(ToPrimitive(a), ToPrimitive(b))

(***************************************************************************)
(* Environments.  heap is the sequence of the environment objects made so  *)
(* far; an environment is named by its index.  An object holds its own     *)
(* properties (own, a function of names) and its prototype (parent, NoEnv  *)
(* for Object.create(null)).                                               *)
(***************************************************************************)
NoEnv == 0
TopEnvId == 1

NameIf == <<"i", "f">>
NameWhile == <<"w", "h", "i", "l", "e">>
NameDo == <<"d", "o">>
NameDefine == <<"d", "e", "f", "i", "n", "e">>
NameFun == <<"f", "u", "n">>
NameTrue == <<"t", "r", "u", "e">>
NameFalse == <<"f", "a", "l", "s", "e">>
NamePrint == <<"p", "r", "i", "n", "t">>
Operators == {<<"+">>, <<"-">>, <<"*">>, <<"/">>, <<"=", "=">>, <<"<">>, <<">">>}

Builtin(name) == [t |-> "function", kind |-> "builtin", name |-> name]

\* The bindings topEnv is given as the script loads.
TopEnvOwn ==
  [n \in {NameTrue, NameFalse, NamePrint} \cup Operators |->
     IF n = NameTrue THEN Bool(TRUE)
     ELSE IF n = NameFalse THEN Bool(FALSE)
     ELSE Builtin(n)]

topEnv == [parent |-> NoEnv, own |-> TopEnvOwn]

\* Object.create(proto): the heap with one more object, which is its last.
ObjectCreate(h, proto) == Append(h, [parent |-> proto, own |-> <<>>])

\* name in env: an own property, or one of the prototype chain
In(h, env, name) ==
  /\ env # NoEnv
  /\ \/ name \in DOMAIN h[env].own
     \/ In(h, h[env].parent, name)

\* env[name], read: the first object of the chain that has the property
Get(h, env, name) ==
  IF env = NoEnv THEN Undefined
  ELSE IF name \in DOMAIN h[env].own THEN h[env].own[name]
  ELSE Get(h, h[env].parent, name)

\* env[name] = value: every property of the chain is a writable data
\* property, so the assignment makes or overwrites env's own property.
Assign(h, env, name, value) ==
  [h EXCEPT ![env].own =
     [n \in DOMAIN @ \cup {name} |-> IF n = name THEN value ELSE @[n]]]

\* The environments of the prototype chain above env.
Ancestors(h, env) ==
  IF env = NoEnv \/ h[env].parent = NoEnv THEN {}
  ELSE {h[env].parent} \cup Ancestors(h, h[env].parent)

(***************************************************************************)
(* The evaluator.  The machine m holds what an evaluation reads and        *)
(* writes: the heap, the console, the value register and, once an error    *)
(* is thrown, the error (status "thrown").  fuel bounds the iterations of  *)
(* while loops: an evaluation that uses it up is still looping (status     *)
(* "looping").  trace is the history of the evaluation: the entry to and   *)
(* the return from every evaluate call (by the path of its expression in   *)
(* the program: 0 the operator, i the i-th argument), every invocation of  *)
(* a function, every binding made and the error thrown.                    *)
(***************************************************************************)
NoError == [name |-> <<>>, message |-> <<>>]

Return(m, v) == [m EXCEPT !.value = v]
Log(m, event) == [m EXCEPT !.trace = Append(@, event)]
Throw(m, error) ==
  Log([m EXCEPT !.status = "thrown", !.error = error],
      [ev |-> "throw", error |-> error])
Running(m) == m.status = "running"

Enter(path, env) == [ev |-> "enter", path |-> path, env |-> env]
Exit(path, v) == [ev |-> "exit", path |-> path, value |-> v]
Call(path, f, args) == [ev |-> "call", path |-> path, f |-> f, args |-> args]
Bind(env, name, v) ==
  [ev |-> "define", env |-> env, name |-> name, value |-> v]
BindParam(env, name, v) ==
  [ev |-> "param", env |-> env, name |-> name, value |-> v]

\* arguments[i] of a built-in's named parameter: undefined when not passed
Param(args, i) == IF i <= Len(args) THEN args[i] ELSE Undefined

\* new Function("a, b", "return a " + op + " b;")
BinaryOperator(op, a, b) ==
  CASE op = <<"+">> -> JsAdd(a, b)
    [] op = <<"-">> -> JsSub(a, b)
    [] op = <<"*">> -> JsMul(a, b)
    [] op = <<"/">> -> JsDiv(a, b)
    [] op = <<"=", "=">> -> JsEquals(a, b)
    [] op = <<"<">> -> JsLess(a, b)
    [] op = <<">">> -> JsGreater(a, b)

\* topEnv.print: console.log(value), then return value
print(args, m) ==
  Return([m EXCEPT !.out = Append(@, Param(args, 1))], Param(args, 1))

callBuiltin(f, args, m) ==
  IF f.name = NamePrint THEN print(args, m)
  ELSE Return(m, BinaryOperator(f.name, Param(args, 1), Param(args, 2)))

\* The loop of the closure that binds the parameters in localEnv.
bindParams(argNames, args, i, localEnv, m) ==
  IF i > Len(args) THEN m
  ELSE bindParams(argNames, args, i + 1, localEnv,
         Log([m EXCEPT !.heap = Assign(@, localEnv, argNames[i], args[i])],
             BindParam(localEnv, argNames[i], args[i])))

\* A closure that makes its environment before it checks the argument
\* count: what C6 rules out.
callClosureEnvFirst(f, args, m) ==
  IF Len(args) # Len(f.argNames)
  THEN Throw([m EXCEPT !.heap = ObjectCreate(@, f.env)],
             TypeError(MsgWrongNumber \o NatToString(Len(f.argNames))
                         \o MsgGot \o NatToString(Len(args))))
  ELSE evaluate(f.body, Len(m.heap) + 1, f.path,
                bindParams(f.argNames, args, 1, Len(m.heap) + 1,
                           [m EXCEPT !.heap = ObjectCreate(@, f.env)]))

\* The function specialFormsfun returns, called with args: the check of
\* the argument count, Object.create(env), the bindings and the body.
callClosure(f, args, m) ==
  IF Len(args) # Len(f.argNames)
  THEN Throw(m, TypeError(MsgWrongNumber \o NatToString(Len(f.argNames))
                            \o MsgGot \o NatToString(Len(args))))
  ELSE evaluate(f.body, Len(m.heap) + 1, f.path,
                bindParams(f.argNames, args, 1, Len(m.heap) + 1,
                           [m EXCEPT !.heap = ObjectCreate(@, f.env)]))

\* op.apply(null, args)
apply(f, args, path, m) ==
  IF f.kind = "builtin" THEN callBuiltin(f, args, Log(m, Call(path, f, args)))
  ELSE callClosure(f, args, Log(m, Call(path, f, args)))

\* expr.args.map(function(arg) { return evaluate(arg, env); }): the
\* arguments from the i-th on, evaluated in order; the values end in value.
mapArgs(args, i, env, path, m, values) ==
  IF i > Len(args) THEN Return(m, values)
  ELSE mapArgsNext(args, i, env, path,
                   evaluate(args[i], env, path \o <<i>>, m), values)

\* map after its callback returned for the i-th argument, leaving r.
mapArgsNext(args, i, env, path, r, values) ==
  IF ~Running(r) THEN r
  ELSE mapArgs(args, i + 1, env, path, r, Append(values, r.value))

\* An if that takes the host language's falsy values (false, 0, "") for
\* false: what C4 rules out.
ifBranchFalsy(args, env, path, c) ==
  IF ~Running(c) THEN c
  ELSE IF c.value \notin {Bool(FALSE), Num(0), Str(<<>>)}
  THEN evaluate(args[2], env, path \o <<2>>, c)
  ELSE evaluate(args[3], env, path \o <<3>>, c)

\* specialForms["if"] after the condition is evaluated, leaving c.
ifBranch(args, env, path, c) ==
  IF ~Running(c) THEN c
  ELSE IF c.value # Bool(FALSE)
  THEN evaluate(args[2], env, path \o <<2>>, c)
  ELSE evaluate(args[3], env, path \o <<3>>, c)

specialFormsIf(args, env, path, m) ==
  IF Len(args) # 3 THEN Throw(m, SyntaxError(MsgBadIf))
  ELSE ifBranch(args, env, path, evaluate(args[1], env, path \o <<1>>, m))

\* The while statement of specialForms["while"] and the return after it.
whileLoop(args, env, path, m) ==
  IF m.fuel = 0 THEN [m EXCEPT !.status = "looping"]
  ELSE whileTest(args, env, path, evaluate(args[1], env, path \o <<1>>, m))

\* A while that takes the host language's falsy values for false: what C5
\* rules out.
whileTestFalsy(args, env, path, c) ==
  IF ~Running(c) THEN c
  ELSE IF c.value \notin {Bool(FALSE), Num(0), Str(<<>>)}
  THEN whileBody(args, env, path, evaluate(args[2], env, path \o <<2>>, c))
  ELSE Return(c, Bool(FALSE))

\* The while statement after its condition is evaluated, leaving c.
whileTest(args, env, path, c) ==
  IF ~Running(c) THEN c
  ELSE IF c.value # Bool(FALSE)
  THEN whileBody(args, env, path, evaluate(args[2], env, path \o <<2>>, c))
  ELSE Return(c, Bool(FALSE))

\* The while statement after its body is evaluated, leaving b.
whileBody(args, env, path, b) ==
  IF ~Running(b) THEN b
  ELSE whileLoop(args, env, path, [b EXCEPT !.fuel = @ - 1])

specialFormsWhile(args, env, path, m) ==
  IF Len(args) # 2 THEN Throw(m, SyntaxError(MsgBadWhile))
  ELSE whileLoop(args, env, path, m)

\* args.forEach(function(arg) { value = evaluate(arg, env); }) from the i-th
\* argument on, and the return of value.
doLoop(args, i, env, path, m, value) ==
  IF i > Len(args) THEN Return(m, value)
  ELSE doLoopNext(args, i, env, path,
                  evaluate(args[i], env, path \o <<i>>, m))

\* forEach after its callback returned for the i-th argument, leaving r.
doLoopNext(args, i, env, path, r) ==
  IF ~Running(r) THEN r ELSE doLoop(args, i + 1, env, path, r, r.value)

specialFormsDo(args, env, path, m) ==
  doLoop(args, 1, env, path, m, Bool(FALSE))

\* A define that assigns in the global environment: what C2 rules out.
defineBindGlobal(name, env, r) ==
  IF ~Running(r) THEN r
  ELSE Log([r EXCEPT !.heap = Assign(@, TopEnvId, name, r.value)],
           Bind(env, name, r.value))

\* specialForms["define"] after the value is evaluated, leaving r.
defineBind(name, env, r) ==
  IF ~Running(r) THEN r
  ELSE Log([r EXCEPT !.heap = Assign(@, env, name, r.value)],
           Bind(env, name, r.value))

specialFormsDefine(args, env, path, m) ==
  IF Len(args) # 2 \/ args[1].type # "word"
  THEN Throw(m, SyntaxError(MsgBadDefine))
  ELSE defineBind(args[1].name, env,
                  evaluate(args[2], env, path \o <<2>>, m))

\* The global function specialFormsfun.  The closure it returns holds the
\* environment, the parameter names and the body; id tells two closures
\* apart, as objects are, and path is the body's place in the program.
specialFormsfun(args, env, path, m) ==
  IF Len(args) = 0 THEN Throw(m, SyntaxError(MsgNeedBody))
  ELSE IF \E i \in 1..(Len(args) - 1) : args[i].type # "word"
  THEN Throw(m, SyntaxError(MsgArgNames))
  ELSE Return([m EXCEPT !.nfun = @ + 1],
              [t |-> "function", kind |-> "closure", id |-> m.nfun + 1,
               env |-> env,
               argNames |-> [i \in 1..(Len(args) - 1) |-> args[i].name],
               body |-> args[Len(args)],
               path |-> path \o <<Len(args)>>])

\* The keys of specialForms: the script sets "if", "while", "do" and
\* "define"; its function for fun is assigned to the global variable
\* specialFormsfun, so "fun" is no key.
specialFormsKeys == {NameIf, NameWhile, NameDo, NameDefine}

\* specialForms[name](args, env)
specialForms(name, args, env, path, m) ==
  CASE name = NameIf -> specialFormsIf(args, env, path, m)
    [] name = NameWhile -> specialFormsWhile(args, env, path, m)
    [] name = NameDo -> specialFormsDo(args, env, path, m)
    [] name = NameDefine -> specialFormsDefine(args, env, path, m)

\* case "apply" after the arguments are evaluated, leaving r: the call.
callApply(f, path, r) ==
  IF ~Running(r) THEN r ELSE apply(f, r.value, path, r)

\* An application that checks that its operator is a function only after
\* it evaluated the arguments: what C10 rules out.
checkThenApply(f, path, r) ==
  IF ~Running(r) THEN r
  ELSE IF f.t # "function" THEN Throw(r, TypeError(MsgApplyingNonFunction))
  ELSE apply(f, r.value, path, r)

callOperatorArgsFirst(expr, env, path, op) ==
  IF ~Running(op) THEN op
  ELSE checkThenApply(op.value, path,
                      mapArgs(expr.args, 1, env, path, op, <<>>))

\* case "apply" after the operator is evaluated, leaving op: the check
\* that it is a function, then the arguments.
callOperator(expr, env, path, op) ==
  IF ~Running(op) THEN op
  ELSE IF op.value.t # "function"
  THEN Throw(op, TypeError(MsgApplyingNonFunction))
  ELSE callApply(op.value, path, mapArgs(expr.args, 1, env, path, op, <<>>))

\* case "apply", when the operator names no special form
evaluateCall(expr, env, path, m) ==
  callOperator(expr, env, path,
               evaluate(expr.operator, env, path \o <<0>>, m))

\* case "word"
evaluateWord(expr, env, m) ==
  IF In(m.heap, env, expr.name) THEN Return(m, Get(m.heap, env, expr.name))
  ELSE Throw(m, ReferenceError(MsgUndefinedVariable \o expr.name))

\* case "apply"
evaluateApply(expr, env, path, m) ==
  IF expr.operator.type = "word" /\ expr.operator.name \in specialFormsKeys
  THEN specialForms(expr.operator.name, expr.args, env, path, m)
  ELSE evaluateCall(expr, env, path, m)

\* The switch of evaluate.
evaluateSwitch(expr, env, path, m) ==
  CASE expr.type = "value" -> Return(m, expr.value)
    [] expr.type = "word" -> evaluateWord(expr, env, m)
    [] expr.type = "apply" -> evaluateApply(expr, env, path, m)

\* The history's record of a return from evaluate: none when it threw.
Leave(path, r) == IF Running(r) THEN Log(r, Exit(path, r.value)) ELSE r

evaluate(expr, env, path, m) ==
  Leave(path, evaluateSwitch(expr, env, path, Log(m, Enter(path, env))))

(***************************************************************************)
(* The driver.  An outcome is what a call leaves: the value it returned    *)
(* (returned, empty when it returned nothing), the error that escaped it   *)
(* (escaped), whether it is still looping, the machine and the             *)
(* environment the program was evaluated in.                               *)
(***************************************************************************)
\* A machine about to evaluate, on heap h.
Machine(h) ==
  [value |-> Undefined, heap |-> h, out |-> <<>>, trace |-> <<>>,
   fuel |-> MaxLoop, status |-> "running", error |-> NoError, nfun |-> 0]

Outcome(m, env, ret, esc) ==
  [returned |-> ret, escaped |-> esc, looping |-> m.status = "looping",
   m |-> m, env |-> env]

\* Array.prototype.slice.call(arguments, 0).join("\n")
JoinLines(fragments) ==
  IF fragments = <<>> THEN <<>>
  ELSE IF Len(fragments) = 1 THEN fragments[1]
  ELSE fragments[1] \o <<"\n">> \o JoinLines(Tail(fragments))

\* evaluate(parse(program), env), on machine m
evaluateParsed(tree, env, m) ==
  IF tree.ok THEN evaluate(tree.expr, env, <<>>, m) ELSE Throw(m, tree.error)

\* A run without the try statement: what C7 rules out.
runReturnUncaught(m, env) ==
  IF m.status = "thrown" THEN Outcome(m, env, <<>>, <<m.error>>)
  ELSE IF m.status = "looping" THEN Outcome(m, env, <<>>, <<>>)
  ELSE Outcome(m, env, <<m.value>>, <<>>)

\* The return of run: of the value in the try block, of error.toString()
\* in the catch block.
runReturn(m, env) ==
  IF m.status = "thrown"
  THEN Outcome(m, env, <<Str(ErrorToString(m.error))>>, <<>>)
  ELSE IF m.status = "looping" THEN Outcome(m, env, <<>>, <<>>)
  ELSE Outcome(m, env, <<m.value>>, <<>>)

\* A run that evaluates in topEnv itself: what C8 rules out.
runInTopEnv(fragments, h) ==
  runReturn(evaluateParsed(parse(JoinLines(fragments)), TopEnvId,
                           Machine(h)),
            TopEnvId)

run(fragments, h) ==
  runReturn(evaluateParsed(parse(JoinLines(fragments)), Len(h) + 1,
                           Machine(ObjectCreate(h, TopEnvId))),
            Len(h) + 1)

\* The arguments of the application a function literal's text parses to.
FunArgs(funText) == parse(funText).expr.args

\* A call that nothing catches the errors of.
hostReturn(m, env) ==
  IF m.status = "thrown" THEN Outcome(m, env, <<>>, <<m.error>>)
  ELSE IF m.status = "looping" THEN Outcome(m, env, <<>>, <<>>)
  ELSE Outcome(m, env, <<m.value>>, <<>>)

\* The host's call of the closure f holds, if specialFormsfun returned one.
hostApply(f, values) ==
  IF Running(f) THEN apply(f.value, values, <<>>, f) ELSE f

\* The host calls the global function specialFormsfun with the arguments
\* of a function literal and an environment made as run makes its own,
\* holding the bindings own, and then calls the closure with values.
callFun(funText, own, values, h) ==
  hostReturn(
    hostApply(
      specialFormsfun(
        FunArgs(funText), Len(h) + 1, <<>>,
        Machine([ObjectCreate(h, TopEnvId) EXCEPT ![Len(h) + 1].own = own])),
      values),
    Len(h) + 1)

(***************************************************************************)
(* The programs the model runs: each a sequence of the fragments run       *)
(* is called with.                                                         *)
(***************************************************************************)
\* +(1, 2)
ProgAddText ==
  <<"+", "(", "1", ",", " ", "2", ")">>
ProgAdd == <<ProgAddText>>

\* do(define(x, 10), +(x, 5))
ProgDoDefineText ==
  <<"d", "o", "(", "d", "e", "f", "i", "n", "e", "(", "x", ",", " ", "1",
    "0", ")", ",", " ", "+", "(", "x", ",", " ", "5", ")", ")">>
ProgDoDefine == <<ProgDoDefineText>>

\* do(define(x, 10), | +(x, 5))
ProgTwoFragmentsText1 ==
  <<"d", "o", "(", "d", "e", "f", "i", "n", "e", "(", "x", ",", " ", "1",
    "0", ")", ",">>
ProgTwoFragmentsText2 ==
  <<"+", "(", "x", ",", " ", "5", ")", ")">>
ProgTwoFragments == <<ProgTwoFragmentsText1, ProgTwoFragmentsText2>>

\* if(false, 1, 2)
ProgIfFalseText ==
  <<"i", "f", "(", "f", "a", "l", "s", "e", ",", " ", "1", ",", " ", "2",
    ")">>
ProgIfFalse == <<ProgIfFalseText>>

\* fun(a, b, +(a, b))(3, 4)
ProgFunCallText ==
  <<"f", "u", "n", "(", "a", ",", " ", "b", ",", " ", "+", "(", "a", ",",
    " ", "b", ")", ")", "(", "3", ",", " ", "4", ")">>
ProgFunCall == <<ProgFunCallText>>

\* fun(1)()
ProgFunNoParamsText ==
  <<"f", "u", "n", "(", "1", ")", "(", ")">>
ProgFunNoParams == <<ProgFunNoParamsText>>

\* foo
ProgFooText ==
  <<"f", "o", "o">>
ProgFoo == <<ProgFooText>>

\* +(1, 2
ProgUnterminatedText ==
  <<"+", "(", "1", ",", " ", "2">>
ProgUnterminated == <<ProgUnterminatedText>>

\* 1 2
ProgTrailingTextText ==
  <<"1", " ", "2">>
ProgTrailingText == <<ProgTrailingTextText>>

\* )
ProgCloseParenText ==
  <<")">>
ProgCloseParen == <<ProgCloseParenText>>

\* print(1,)
ProgTrailingCommaText ==
  <<"p", "r", "i", "n", "t", "(", "1", ",", ")">>
ProgTrailingComma == <<ProgTrailingCommaText>>

\* define(x, 10)
ProgDefineXText ==
  <<"d", "e", "f", "i", "n", "e", "(", "x", ",", " ", "1", "0", ")">>
ProgDefineX == <<ProgDefineXText>>

\* x
ProgXText ==
  <<"x">>
ProgX == <<ProgXText>>

\* print(x)
ProgPrintXText ==
  <<"p", "r", "i", "n", "t", "(", "x", ")">>
ProgPrintX == <<ProgPrintXText>>

\* do(define(+, 5), +)
ProgDefinePlusText ==
  <<"d", "o", "(", "d", "e", "f", "i", "n", "e", "(", "+", ",", " ", "5",
    ")", ",", " ", "+", ")">>
ProgDefinePlus == <<ProgDefinePlusText>>

\* do(define(true, false), if(true, 1, 2))
ProgDefineTrueText ==
  <<"d", "o", "(", "d", "e", "f", "i", "n", "e", "(", "t", "r", "u", "e",
    ",", " ", "f", "a", "l", "s", "e", ")", ",", " ", "i", "f", "(", "t",
    "r", "u", "e", ",", " ", "1", ",", " ", "2", ")", ")">>
ProgDefineTrue == <<ProgDefineTrueText>>

\* do(define(x, 1), define(x, "a"), x)
ProgDefineTwiceText ==
  <<"d", "o", "(", "d", "e", "f", "i", "n", "e", "(", "x", ",", " ", "1",
    ")", ",", " ", "d", "e", "f", "i", "n", "e", "(", "x", ",", " ", "\"",
    "a", "\"", ")", ",", " ", "x", ")">>
ProgDefineTwice == <<ProgDefineTwiceText>>

\* define(1, 2)
ProgBadDefineText ==
  <<"d", "e", "f", "i", "n", "e", "(", "1", ",", " ", "2", ")">>
ProgBadDefine == <<ProgBadDefineText>>

\* if(0, 1, 2)
ProgIfZeroText ==
  <<"i", "f", "(", "0", ",", " ", "1", ",", " ", "2", ")">>
ProgIfZero == <<ProgIfZeroText>>

\* if("", print(1), print(2))
ProgIfEmptyText ==
  <<"i", "f", "(", "\"", "\"", ",", " ", "p", "r", "i", "n", "t", "(", "1",
    ")", ",", " ", "p", "r", "i", "n", "t", "(", "2", ")", ")">>
ProgIfEmpty == <<ProgIfEmptyText>>

\* if(print(false), print(1), print(2))
ProgIfPrintsText ==
  <<"i", "f", "(", "p", "r", "i", "n", "t", "(", "f", "a", "l", "s", "e",
    ")", ",", " ", "p", "r", "i", "n", "t", "(", "1", ")", ",", " ", "p",
    "r", "i", "n", "t", "(", "2", ")", ")">>
ProgIfPrints == <<ProgIfPrintsText>>

\* if(true, print(1), print(2))
ProgIfTrueText ==
  <<"i", "f", "(", "t", "r", "u", "e", ",", " ", "p", "r", "i", "n", "t",
    "(", "1", ")", ",", " ", "p", "r", "i", "n", "t", "(", "2", ")", ")">>
ProgIfTrue == <<ProgIfTrueText>>

\* if(print(1), print(2))
ProgIfTwoArgsText ==
  <<"i", "f", "(", "p", "r", "i", "n", "t", "(", "1", ")", ",", " ", "p",
    "r", "i", "n", "t", "(", "2", ")", ")">>
ProgIfTwoArgs == <<ProgIfTwoArgsText>>

\* if(print(1), 2, 3, 4)
ProgIfFourArgsText ==
  <<"i", "f", "(", "p", "r", "i", "n", "t", "(", "1", ")", ",", " ", "2",
    ",", " ", "3", ",", " ", "4", ")">>
ProgIfFourArgs == <<ProgIfFourArgsText>>

\* if(foo, print(1), print(2))
ProgIfThrowsText ==
  <<"i", "f", "(", "f", "o", "o", ",", " ", "p", "r", "i", "n", "t", "(",
    "1", ")", ",", " ", "p", "r", "i", "n", "t", "(", "2", ")", ")">>
ProgIfThrows == <<ProgIfThrowsText>>

\* if(==(1, 2), 1, if(<(1, 2), "a", "b"))
ProgIfNestedText ==
  <<"i", "f", "(", "=", "=", "(", "1", ",", " ", "2", ")", ",", " ", "1",
    ",", " ", "i", "f", "(", "<", "(", "1", ",", " ", "2", ")", ",", " ",
    "\"", "a", "\"", ",", " ", "\"", "b", "\"", ")", ")">>
ProgIfNested == <<ProgIfNestedText>>

\* while(false, print(1))
ProgWhileFalseText ==
  <<"w", "h", "i", "l", "e", "(", "f", "a", "l", "s", "e", ",", " ", "p",
    "r", "i", "n", "t", "(", "1", ")", ")">>
ProgWhileFalse == <<ProgWhileFalseText>>

\* while(true, print(1))
ProgWhileTrueText ==
  <<"w", "h", "i", "l", "e", "(", "t", "r", "u", "e", ",", " ", "p", "r",
    "i", "n", "t", "(", "1", ")", ")">>
ProgWhileTrue == <<ProgWhileTrueText>>

\* while(0, 1)
ProgWhileZeroText ==
  <<"w", "h", "i", "l", "e", "(", "0", ",", " ", "1", ")">>
ProgWhileZero == <<ProgWhileZeroText>>

\* do(define(i, 0), while(<(i, 2), define(i, +(i, 1))), i)
ProgWhileCountText ==
  <<"d", "o", "(", "d", "e", "f", "i", "n", "e", "(", "i", ",", " ", "0",
    ")", ",", " ", "w", "h", "i", "l", "e", "(", "<", "(", "i", ",", " ",
    "2", ")", ",", " ", "d", "e", "f", "i", "n", "e", "(", "i", ",", " ",
    "+", "(", "i", ",", " ", "1", ")", ")", ")", ",", " ", "i", ")">>
ProgWhileCount == <<ProgWhileCountText>>

\* do(define(i, 1), while(print(>(i, 0)), define(i, -(i, 1))))
ProgWhilePrintText ==
  <<"d", "o", "(", "d", "e", "f", "i", "n", "e", "(", "i", ",", " ", "1",
    ")", ",", " ", "w", "h", "i", "l", "e", "(", "p", "r", "i", "n", "t",
    "(", ">", "(", "i", ",", " ", "0", ")", ")", ",", " ", "d", "e", "f",
    "i", "n", "e", "(", "i", ",", " ", "-", "(", "i", ",", " ", "1", ")",
    ")", ")", ")">>
ProgWhilePrint == <<ProgWhilePrintText>>

\* while(print(1))
ProgWhileOneArgText ==
  <<"w", "h", "i", "l", "e", "(", "p", "r", "i", "n", "t", "(", "1", ")",
    ")">>
ProgWhileOneArg == <<ProgWhileOneArgText>>

\* while(true, foo)
ProgWhileThrowsText ==
  <<"w", "h", "i", "l", "e", "(", "t", "r", "u", "e", ",", " ", "f", "o",
    "o", ")">>
ProgWhileThrows == <<ProgWhileThrowsText>>

\* print()
ProgPrintNothingText ==
  <<"p", "r", "i", "n", "t", "(", ")">>
ProgPrintNothing == <<ProgPrintNothingText>>

\* define(x, print())
ProgDefineNothingText ==
  <<"d", "e", "f", "i", "n", "e", "(", "x", ",", " ", "p", "r", "i", "n",
    "t", "(", ")", ")">>
ProgDefineNothing == <<ProgDefineNothingText>>

\* +(1)
ProgAddOneText ==
  <<"+", "(", "1", ")">>
ProgAddOne == <<ProgAddOneText>>

\* ==()
ProgEqNothingText ==
  <<"=", "=", "(", ")">>
ProgEqNothing == <<ProgEqNothingText>>

\* do()
ProgDoNothingText ==
  <<"d", "o", "(", ")">>
ProgDoNothing == <<ProgDoNothingText>>

\* /(1, 0)
ProgDivZeroText ==
  <<"/", "(", "1", ",", " ", "0", ")">>
ProgDivZero == <<ProgDivZeroText>>

\* /(7, 2)
ProgDivideText ==
  <<"/", "(", "7", ",", " ", "2", ")">>
ProgDivide == <<ProgDivideText>>

\* +("a", 1)
ProgConcatText ==
  <<"+", "(", "\"", "a", "\"", ",", " ", "1", ")">>
ProgConcat == <<ProgConcatText>>

\* -("5", 2)
ProgMinusStringText ==
  <<"-", "(", "\"", "5", "\"", ",", " ", "2", ")">>
ProgMinusString == <<ProgMinusStringText>>

\* <("a", "b")
ProgLessStringText ==
  <<"<", "(", "\"", "a", "\"", ",", " ", "\"", "b", "\"", ")">>
ProgLessString == <<ProgLessStringText>>

\* ==(1, "1")
ProgEqMixedText ==
  <<"=", "=", "(", "1", ",", " ", "\"", "1", "\"", ")">>
ProgEqMixed == <<ProgEqMixedText>>

\* *(2, 3)
ProgTimesText ==
  <<"*", "(", "2", ",", " ", "3", ")">>
ProgTimes == <<ProgTimesText>>

\* 1(print(2))
ProgNumberAppliedText ==
  <<"1", "(", "p", "r", "i", "n", "t", "(", "2", ")", ")">>
ProgNumberApplied == <<ProgNumberAppliedText>>

\* "a"(define(x, 1))
ProgStringAppliedText ==
  <<"\"", "a", "\"", "(", "d", "e", "f", "i", "n", "e", "(", "x", ",", " ",
    "1", ")", ")">>
ProgStringApplied == <<ProgStringAppliedText>>

\* print(1)(print(2))
ProgResultAppliedText ==
  <<"p", "r", "i", "n", "t", "(", "1", ")", "(", "p", "r", "i", "n", "t",
    "(", "2", ")", ")">>
ProgResultApplied == <<ProgResultAppliedText>>

\* foo(print(1))
ProgUndefinedAppliedText ==
  <<"f", "o", "o", "(", "p", "r", "i", "n", "t", "(", "1", ")", ")">>
ProgUndefinedApplied == <<ProgUndefinedAppliedText>>

\* do(define(x, 1), x(define(x, 2)))
ProgVariableAppliedText ==
  <<"d", "o", "(", "d", "e", "f", "i", "n", "e", "(", "x", ",", " ", "1",
    ")", ",", " ", "x", "(", "d", "e", "f", "i", "n", "e", "(", "x", ",",
    " ", "2", ")", ")", ")">>
ProgVariableApplied == <<ProgVariableAppliedText>>

\* +(print(1), print(2))
ProgArgsInOrderText ==
  <<"+", "(", "p", "r", "i", "n", "t", "(", "1", ")", ",", " ", "p", "r",
    "i", "n", "t", "(", "2", ")", ")">>
ProgArgsInOrder == <<ProgArgsInOrderText>>

\* +(print(1), foo, print(2))
ProgArgThrowsText ==
  <<"+", "(", "p", "r", "i", "n", "t", "(", "1", ")", ",", " ", "f", "o",
    "o", ",", " ", "p", "r", "i", "n", "t", "(", "2", ")", ")">>
ProgArgThrows == <<ProgArgThrowsText>>

\* print(+)(3, 4)
ProgCurriedText ==
  <<"p", "r", "i", "n", "t", "(", "+", ")", "(", "3", ",", " ", "4", ")">>
ProgCurried == <<ProgCurriedText>>

Programs ==
  {ProgAdd, ProgDoDefine, ProgTwoFragments, ProgIfFalse, ProgFunCall,
   ProgFunNoParams, ProgFoo, ProgUnterminated, ProgTrailingText,
   ProgCloseParen, ProgTrailingComma, ProgDefineX, ProgX, ProgPrintX,
   ProgDefinePlus, ProgDefineTrue, ProgDefineTwice, ProgBadDefine,
   ProgIfZero, ProgIfEmpty, ProgIfPrints, ProgIfTrue, ProgIfTwoArgs,
   ProgIfFourArgs, ProgIfThrows, ProgIfNested, ProgWhileFalse,
   ProgWhileTrue, ProgWhileZero, ProgWhileCount, ProgWhilePrint,
   ProgWhileOneArg, ProgWhileThrows, ProgPrintNothing, ProgDefineNothing,
   ProgAddOne, ProgEqNothing, ProgDoNothing, ProgDivZero, ProgDivide,
   ProgConcat, ProgMinusString, ProgLessString, ProgEqMixed, ProgTimes,
   ProgNumberApplied, ProgStringApplied, ProgResultApplied,
   ProgUndefinedApplied, ProgVariableApplied, ProgArgsInOrder,
   ProgArgThrows, ProgCurried}

(***************************************************************************)
(* The function literals the host hands to specialFormsfun, as texts:      *)
(* the arguments are those of the parsed application.                      *)
(***************************************************************************)
\* fun(a, b, +(a, b))
FunAdd ==
  <<"f", "u", "n", "(", "a", ",", " ", "b", ",", " ", "+", "(", "a", ",",
    " ", "b", ")", ")">>

\* fun(do(define(x, 5), x))
FunDefineLocal ==
  <<"f", "u", "n", "(", "d", "o", "(", "d", "e", "f", "i", "n", "e", "(",
    "x", ",", " ", "5", ")", ",", " ", "x", ")", ")">>

\* fun(x, do(define(x, +(x, 1)), x))
FunDefineParam ==
  <<"f", "u", "n", "(", "x", ",", " ", "d", "o", "(", "d", "e", "f", "i",
    "n", "e", "(", "x", ",", " ", "+", "(", "x", ",", " ", "1", ")", ")",
    ",", " ", "x", ")", ")">>

\* fun(a, do(define(+, a), print(+)))
FunShadowPlus ==
  <<"f", "u", "n", "(", "a", ",", " ", "d", "o", "(", "d", "e", "f", "i",
    "n", "e", "(", "+", ",", " ", "a", ")", ",", " ", "p", "r", "i", "n",
    "t", "(", "+", ")", ")", ")">>

\* fun(a, a, a)
FunSameParam ==
  <<"f", "u", "n", "(", "a", ",", " ", "a", ",", " ", "a", ")">>

\* fun()
FunNoBody ==
  <<"f", "u", "n", "(", ")">>

\* fun(1, a)
FunBadParam ==
  <<"f", "u", "n", "(", "1", ",", " ", "a", ")">>

\* fun(a, print(+(a, x)))
FunReadsOuter ==
  <<"f", "u", "n", "(", "a", ",", " ", "p", "r", "i", "n", "t", "(", "+",
    "(", "a", ",", " ", "x", ")", ")", ")">>

FunTexts ==
  {FunAdd, FunDefineLocal, FunDefineParam, FunShadowPlus,
   FunSameParam, FunNoBody, FunBadParam, FunReadsOuter}


NameX == <<"x">>

\* The bindings the host's environment is given before a closure is made.
HostBindings == {<<>>, [n \in {NameX} |-> Num(1)]}

\* The values the host calls a closure with.
HostValues == {<<>>, <<Num(3)>>, <<Num(3), Num(4)>>, <<Num(3), Num(4), Num(5)>>}

(***************************************************************************)
(* The state.  heap holds topEnv and the environments of the last call     *)
(* (those of earlier calls are unreachable); out is what the last call     *)
(* wrote to the console, returned and escaped its outcome, trace its       *)
(* history and lastOp the call itself, with the heap its evaluation        *)
(* started on (heap0).                                                     *)
(* defined is the history of the names earlier runs bound; hung holds      *)
(* once a call loops for ever, after which nothing else runs.              *)
(***************************************************************************)
\* The environments a new call can reach: only topEnv.
Reachable(h) == <<h[TopEnvId]>>

BoundNames(tr) ==
  {tr[i].name : i \in {j \in 1..Len(tr) : tr[j].ev = "define"}}

Init ==
  /\ text = <<>>
  /\ parsed = <<>>
  /\ heap = <<topEnv>>
  /\ out = <<>>
  /\ returned = <<>>
  /\ escaped = <<>>
  /\ trace = <<>>
  /\ lastOp = [op |-> "none"]
  /\ nruns = 0
  /\ hung = FALSE
  /\ defined = {}

Finish(o) ==
  /\ heap' = o.m.heap
  /\ out' = o.m.out
  /\ returned' = o.returned
  /\ escaped' = o.escaped
  /\ trace' = o.m.trace
  /\ hung' = o.looping
  /\ nruns' = nruns + 1
  /\ UNCHANGED <<text, parsed>>

\* What a run leaves in the state.
RunDone(program, o) ==
  /\ Finish(o)
  /\ lastOp' = [op |-> "run", program |-> program, env |-> o.env,
                heap0 |-> ObjectCreate(Reachable(heap), TopEnvId),
                defined |-> defined]
  /\ defined' = defined \cup BoundNames(o.m.trace)

\* The host calls run(fragments...).
Run ==
  /\ ~hung
  /\ nruns < MaxRuns
  /\ \E program \in Programs : RunDone(program, run(program, Reachable(heap)))

\* What a call of a closure leaves in the state.
CallDone(funText, own, values, o) ==
  /\ Finish(o)
  /\ lastOp' = [op |-> "call", funText |-> funText, own |-> own,
                values |-> values, env |-> o.env,
                heap0 |-> Append(Reachable(heap),
                                 [parent |-> TopEnvId, own |-> own])]
  /\ UNCHANGED defined

\* The host makes a closure with specialFormsfun and calls it.
CallFun ==
  /\ ~hung
  /\ nruns < MaxRuns
  /\ \E funText \in FunTexts, own \in HostBindings, values \in HostValues :
       CallDone(funText, own, values,
                callFun(funText, own, values, Reachable(heap)))

Next == Run \/ CallFun

Spec == Init /\ [][Next]_vars

(***************************************************************************)
(* The parser's specification: a text is drawn from the texts of at most   *)
(* MaxTextLen characters over ParseAlphabet, and parse is applied to it.   *)
(***************************************************************************)
ParseAlphabet == {"a", "1", "+", "(", ")", ",", " ", "\""}

Texts == UNION {[1..n -> ParseAlphabet] : n \in 0..MaxTextLen}

InitParse ==
  /\ text \in Texts
  /\ parsed = <<>>
  /\ heap = <<topEnv>>
  /\ out = <<>>
  /\ returned = <<>>
  /\ escaped = <<>>
  /\ trace = <<>>
  /\ lastOp = [op |-> "none"]
  /\ nruns = 0
  /\ hung = FALSE
  /\ defined = {}

\* The host calls parse(text).
ParseText ==
  /\ parsed = <<>>
  /\ parsed' = <<parse(text)>>
  /\ UNCHANGED <<text, heap, out, returned, escaped, trace, lastOp, nruns,
                 hung, defined>>

NextParse == ParseText

SpecParse == InitParse /\ [][NextParse]_vars

(***************************************************************************)
(* Reading the state: the text of a string, the expression a path of the   *)
(* history names, and the part of the history that is one evaluation.      *)
(***************************************************************************)
RECURSIVE Text(_), NodeAt(_, _)

\* The characters cs as one string.
Text(cs) == IF cs = <<>> THEN "" ELSE cs[1] \o Text(Tail(cs))

\* The parse of what the last call evaluated: the program of a run, the
\* function literal of a closure.
Root ==
  IF lastOp.op = "run" THEN parse(JoinLines(lastOp.program))
  ELSE parse(lastOp.funText)

NodeAt(expr, path) ==
  IF path = <<>> THEN expr
  ELSE IF path[1] = 0 THEN NodeAt(expr.operator, Tail(path))
  ELSE NodeAt(expr.args[path[1]], Tail(path))

Node(path) == NodeAt(Root.expr, path)

Min(S) == CHOOSE x \in S : \A y \in S : x <= y
Max(S) == CHOOSE x \in S : \A y \in S : x >= y

IsEnter(i) == trace[i].ev = "enter"
IsExitOf(k, path) == trace[k].ev = "exit" /\ trace[k].path = path

\* The evaluation entered at i ends at End(i): the index of its return,
\* or one past the history when it never returned (it threw, or loops).
End(i) ==
  LET exits == {k \in (i + 1)..Len(trace) : IsExitOf(k, trace[i].path)}
  IN IF exits = {} THEN Len(trace) + 1 ELSE Min(exits)

Returned(i) == End(i) <= Len(trace)

\* The events inside the evaluation entered at i.
Inside(i) == SubSeq(trace, i + 1, End(i) - 1)

\* Of the events es, the entries to and returns from the expression at path.
At(es, path) ==
  LET Keep(e) == e.ev \in {"enter", "exit"} /\ e.path = path
  IN SelectSeq(es, Keep)

\* Of the events es, the entries to and returns from the operator and the
\* arguments of the application at path, and the calls that application made.
Steps(es, path) ==
  LET Keep(e) ==
        \/ /\ e.ev \in {"enter", "exit"}
           /\ Len(e.path) = Len(path) + 1
           /\ SubSeq(e.path, 1, Len(path)) = path
        \/ e.ev = "call" /\ e.path = path
  IN SelectSeq(es, Keep)

IsApplyOf(n, name) ==
  n.type = "apply" /\ n.operator.type = "word" /\ n.operator.name = name

\* The names the language reserves for its special forms.
SpecialNames == {NameIf, NameWhile, NameDo, NameDefine, NameFun}

IsOrdinaryApply(n) ==
  n.type = "apply"
    /\ ~(n.operator.type = "word" /\ n.operator.name \in SpecialNames)

\* The error the last call ended with, if it threw.
Thrown ==
  IF trace # <<>> /\ trace[Len(trace)].ev = "throw"
  THEN <<trace[Len(trace)].error>> ELSE <<>>

ErrorString(error) == Text(error.name) \o ": " \o Text(error.message)

(***************************************************************************)
(* The grammar of the language, as its texts are recognised: a position    *)
(* is the index of the next character.                                     *)
(*   expr      := primary applyTail*                                       *)
(*   primary   := '"' non-quote-chars '"' | digit+ | word                  *)
(*   applyTail := '(' [expr (',' expr)*] ')'                               *)
(* with white space allowed before every token.                            *)
(***************************************************************************)
RECURSIVE GExpr(_, _), GTails(_, _), GArgList(_, _)

\* The position after the white space at i.
GSkip(s, i) == i + PrefixLen(1, s, i)

\* The positions a primary that starts at i (after white space) can end at.
GPrimary(s, i0) ==
  LET i == GSkip(s, i0)
  IN IF i > Len(s) THEN {}
     ELSE IF s[i] = "\""
     THEN {k + 1 : k \in {k \in (i + 1)..Len(s) :
                            /\ s[k] = "\""
                            /\ \A j \in (i + 1)..(k - 1) : s[j] # "\""}}
     ELSE {k + 1 : k \in {k \in i..Len(s) :
                            \/ \A j \in i..k : IsDigit(s[j])
                            \/ \A j \in i..k : IsNameCh(s[j])}}

\* After an argument that ends at e: ')' ends the list, ',' continues it.
GAfterArg(s, e) ==
  LET k == GSkip(s, e)
  IN IF k > Len(s) THEN {}
     ELSE IF s[k] = ")" THEN {k + 1}
     ELSE IF s[k] = "," THEN GArgList(s, k + 1)
     ELSE {}

\* expr (',' expr)* ')' from i.
GArgList(s, i) == UNION {GAfterArg(s, e) : e \in GExpr(s, i)}

\* The positions an applyTail that starts at j (after white space) ends at.
GApplyTail(s, j) ==
  LET k == GSkip(s, j)
  IN IF k > Len(s) \/ s[k] # "(" THEN {}
     ELSE (IF GSkip(s, k + 1) <= Len(s) /\ s[GSkip(s, k + 1)] = ")"
           THEN {GSkip(s, k + 1) + 1} ELSE {})
            \cup GArgList(s, k + 1)

\* The positions reached from those of ends by any number of applyTails.
GTails(s, ends) ==
  LET next == UNION {GApplyTail(s, j) : j \in ends}
  IN IF next \subseteq ends THEN ends ELSE GTails(s, ends \cup next)

GExpr(s, i) == GTails(s, GPrimary(s, i))

\* s is one expression of the grammar followed only by white space.
InGrammar(s) == \E e \in GExpr(s, 1) : GSkip(s, e) = Len(s) + 1

(***************************************************************************)
(* The claims.                                                             *)
(***************************************************************************)

\* C1: running the program fun(a, b, +(a, b))(3, 4) through run returns 7:
\* the application of fun yields a closure, and applying it to 3 and 4
\* evaluates the body with a bound to 3 and b to 4.
C1_FunProgramReturnsSeven ==
  (lastOp.op = "run" /\ lastOp.program = ProgFunCall)
    => returned = <<Num(7)>>

\* C2: a define writes only into the environment it is evaluated in.  After
\* a call, for every define it made of a name n in an environment e: every
\* ancestor of e is as it was when the evaluation started, also when it
\* binds n itself; a lookup of n from e gives the value e's last define of n
\* bound; a lookup of n from an ancestor that has n gives what it gave.
C2_DefineWritesOnlyItsEnv ==
  \A k \in 1..Len(trace) :
    trace[k].ev = "define" =>
      LET e == trace[k].env
          n == trace[k].name
          last == Max({j \in 1..Len(trace) :
                         /\ trace[j].ev = "define"
                         /\ trace[j].env = e
                         /\ trace[j].name = n})
      IN /\ \A a \in Ancestors(heap, e) : heap[a] = lastOp.heap0[a]
         /\ TopEnvId \in Ancestors(heap, e)
         /\ Get(heap, e, n) = trace[last].value
         /\ \A a \in Ancestors(heap, e) :
              In(lastOp.heap0, a, n)
                => Get(heap, a, n) = Get(lastOp.heap0, a, n)

\* C2's case: a closure's body defined x, which its defining environment
\* binds too; the body read 5 and the defining environment still holds 1.
C2_Witness ==
  /\ lastOp.op = "call"
  /\ lastOp.funText = FunDefineLocal
  /\ NameX \in DOMAIN lastOp.own
  /\ returned = <<Num(5)>>
  /\ \E k \in 1..Len(trace) :
       trace[k].ev = "define" /\ trace[k].name = NameX /\ trace[k].env = 3
  /\ heap[2].own[NameX] = Num(1)

\* C3: parse returns an expression only for a text of the grammar (one
\* expression, then only white space), and throws a SyntaxError for every
\* other text.
C3_ParseAcceptsOnlyTheGrammar ==
  parsed # <<>> =>
    IF InGrammar(text) THEN TRUE
    ELSE ~parsed[1].ok /\ parsed[1].error.name = SyntaxErrorName

\* C4: every evaluation of an if of three arguments evaluates the condition
\* exactly once; when the condition's value is the boolean false it
\* evaluates the third argument once, never the second, and returns its
\* value; for every other value it evaluates the second once, never the
\* third, and returns its value.  An if of another number of arguments
\* throws SyntaxError and evaluates nothing.
C4_IfSelectsOnFalseOnly ==
  \A i \in 1..Len(trace) :
    (IsEnter(i) /\ IsApplyOf(Node(trace[i].path), NameIf)) =>
      LET path == trace[i].path
          n == Node(path)
          cond == At(Inside(i), path \o <<1>>)
          then == At(Inside(i), path \o <<2>>)
          else == At(Inside(i), path \o <<3>>)
      IN IF Len(n.args) # 3
         THEN /\ i + 1 = Len(trace)
              /\ Thrown = <<SyntaxError(MsgBadIf)>>
         ELSE /\ Len(cond) \in {1, 2}
              /\ cond[1].ev = "enter"
              /\ Len(cond) = 1 => (then = <<>> /\ else = <<>>)
              /\ (Len(cond) = 2 /\ cond[2].value = Bool(FALSE)) =>
                   /\ then = <<>>
                   /\ Len(else) \in {1, 2}
                   /\ Returned(i) =>
                        (Len(else) = 2 /\ trace[End(i)].value = else[2].value)
              /\ (Len(cond) = 2 /\ cond[2].value # Bool(FALSE)) =>
                   /\ else = <<>>
                   /\ Len(then) \in {1, 2}
                   /\ Returned(i) =>
                        (Len(then) = 2 /\ trace[End(i)].value = then[2].value)

\* C4's case: the condition was the empty string and the second argument
\* was evaluated and returned, the third never.
C4_Witness ==
  /\ lastOp.op = "run"
  /\ lastOp.program = ProgIfEmpty
  /\ returned = <<Num(1)>>
  /\ out = <<Num(1)>>

\* C5: every evaluation of a while of two arguments that returns returns
\* the boolean false, and has evaluated the condition and the body in
\* turn (c, b, c, b, ..., c): the body after each condition whose value was
\* not the boolean false, nothing after the condition whose value was.
C5_WhileAlternatesAndReturnsFalse ==
  \A i \in 1..Len(trace) :
    (/\ IsEnter(i)
     /\ IsApplyOf(Node(trace[i].path), NameWhile)
     /\ Len(Node(trace[i].path).args) = 2
     /\ Returned(i)) =>
      LET path == trace[i].path
          steps == Steps(Inside(i), path)
      IN /\ trace[End(i)].value = Bool(FALSE)
         /\ Len(steps) % 4 = 2
         /\ \A k \in 1..Len(steps) :
              CASE k % 4 = 1 -> steps[k] = Enter(path \o <<1>>, trace[i].env)
                [] k % 4 = 2 ->
                     /\ steps[k].ev = "exit"
                     /\ steps[k].path = path \o <<1>>
                     /\ (steps[k].value = Bool(FALSE)) = (k = Len(steps))
                [] k % 4 = 3 -> steps[k] = Enter(path \o <<2>>, trace[i].env)
                [] k % 4 = 0 ->
                     steps[k].ev = "exit" /\ steps[k].path = path \o <<2>>

\* C5's case: a while that ran its body twice has returned.
C5_Witness ==
  /\ lastOp.op = "run"
  /\ lastOp.program = ProgWhileCount
  /\ returned = <<Num(2)>>
  /\ \E i \in 1..Len(trace) :
       /\ IsEnter(i)
       /\ IsApplyOf(Node(trace[i].path), NameWhile)
       /\ Returned(i)
       /\ Len(Steps(Inside(i), trace[i].path)) = 10

\* Whether a function literal's arguments make a closure, and of how many
\* parameters.
MakesClosure(args) ==
  Len(args) >= 1 /\ \A i \in 1..(Len(args) - 1) : args[i].type = "word"

\* C6: a closure called with a number of arguments other than the number
\* of its parameters throws TypeError, and the call makes no environment,
\* binds no parameter and evaluates nothing.
C6_WrongArgumentCountThrows ==
  (/\ lastOp.op = "call"
   /\ MakesClosure(FunArgs(lastOp.funText))
   /\ Len(lastOp.values) # Len(FunArgs(lastOp.funText)) - 1) =>
     /\ Len(escaped) = 1
     /\ escaped[1].name = TypeErrorName
     /\ Text(escaped[1].message)
          = "Wrong number of arguments. Expected "
              \o ToString(Len(FunArgs(lastOp.funText)) - 1)
              \o " got " \o ToString(Len(lastOp.values))
     /\ returned = <<>>
     /\ heap = lastOp.heap0
     /\ \A k \in 1..Len(trace) :
          trace[k].ev \notin {"enter", "param", "define"}

\* C6's case: the closure of fun(a, b, +(a, b)) was called with 3, 4 and 5.
C6_Witness ==
  /\ lastOp.op = "call"
  /\ lastOp.funText = FunAdd
  /\ lastOp.values = <<Num(3), Num(4), Num(5)>>
  /\ Len(escaped) = 1
  /\ escaped[1].name = TypeErrorName

\* C7: no error escapes run.  A run that returns returns one value: when
\* parsing or evaluation threw, the string of the error's kind and message
\* (kind SyntaxError, ReferenceError or TypeError), and otherwise the value
\* the evaluation of the parsed program returned; the program foo returns
\* "ReferenceError: Undefined variable: foo".
C7_RunReturnsValueOrErrorString ==
  lastOp.op = "run" =>
    /\ escaped = <<>>
    /\ hung => returned = <<>>
    /\ ~hung =>
         /\ Len(returned) = 1
         /\ Thrown # <<>> =>
              /\ Thrown[1].name
                   \in {SyntaxErrorName, ReferenceErrorName, TypeErrorName}
              /\ returned[1].t = "str"
              /\ Text(returned[1].s) = ErrorString(Thrown[1])
         /\ Thrown = <<>> => trace[Len(trace)] = Exit(<<>>, returned[1])
    /\ lastOp.program = ProgFoo =>
         /\ Len(returned) = 1
         /\ returned[1].t = "str"
         /\ Text(returned[1].s) = "ReferenceError: Undefined variable: foo"

\* C7's case: a run whose evaluation threw after it had printed returned
\* the error's string.
C7_Witness ==
  /\ lastOp.op = "run"
  /\ lastOp.program = ProgArgThrows
  /\ out = <<Num(1)>>
  /\ Len(returned) = 1
  /\ returned[1].t = "str"
  /\ Text(returned[1].s) = "ReferenceError: Undefined variable: foo"

\* C8: runs are isolated.  topEnv always holds its initial bindings; a run
\* evaluates in a child of topEnv that holds only what the run itself
\* defined; and a reference to a name that only earlier runs defined
\* throws ReferenceError.
C8_RunsAreIsolated ==
  /\ heap[TopEnvId] = topEnv
  /\ lastOp.op = "run" =>
       /\ lastOp.env # TopEnvId
       /\ heap[lastOp.env].parent = TopEnvId
       /\ DOMAIN heap[lastOp.env].own = BoundNames(trace)
       /\ \A i \in 1..Len(trace) :
            (/\ IsEnter(i)
             /\ Node(trace[i].path).type = "word"
             /\ Node(trace[i].path).name
                  \in lastOp.defined \ DOMAIN TopEnvOwn
             /\ Node(trace[i].path).name
                  \notin BoundNames(SubSeq(trace, 1, i))) =>
              /\ i + 1 = Len(trace)
              /\ Thrown = <<ReferenceError(MsgUndefinedVariable
                                             \o Node(trace[i].path).name)>>

\* C8's case: x, which an earlier run defined, is undefined in the run of
\* print(x).
C8_Witness ==
  /\ lastOp.op = "run"
  /\ lastOp.program = ProgPrintX
  /\ NameX \in lastOp.defined
  /\ Len(returned) = 1
  /\ returned[1].t = "str"
  /\ Text(returned[1].s) = "ReferenceError: Undefined variable: x"

\* The values of the language: numbers, strings, booleans and functions.
IsEggValue(v) == v.t \in {"num", "str", "bool", "function"}

\* C9: every value evaluate returns and every value an environment binds
\* is a number, a string, a boolean or a function.
C9_NoUndefinedValue ==
  /\ \A i \in 1..Len(trace) :
       trace[i].ev \in {"exit", "define", "param"}
         => IsEggValue(trace[i].value)
  /\ \A e \in 1..Len(heap) :
       \A n \in DOMAIN heap[e].own : IsEggValue(heap[e].own[n])

\* C10: every evaluation of an ordinary application evaluates the operator,
\* then the arguments from left to right, each in the application's
\* environment and each after the one before it returned, and only then
\* calls the function, with the arguments' values; when the operator's
\* value is no function, TypeError "Applying a non-function." is thrown
\* right after the operator returned, before anything else is evaluated.
C10_OperatorThenArgumentsInOrder ==
  \A i \in 1..Len(trace) :
    (IsEnter(i) /\ IsOrdinaryApply(Node(trace[i].path))) =>
      LET path == trace[i].path
          n == Len(Node(path).args)
          steps == Steps(Inside(i), path)
      IN /\ Len(steps) <= 2 * n + 3
         /\ \A k \in 1..Len(steps) :
              IF k = 2 * n + 3
              THEN /\ steps[k].ev = "call"
                   /\ steps[k].f = steps[2].value
                   /\ steps[k].args = [j \in 1..n |-> steps[2 * j + 2].value]
              ELSE /\ steps[k].ev = (IF k % 2 = 1 THEN "enter" ELSE "exit")
                   /\ steps[k].path = path \o <<(k - 1) \div 2>>
                   /\ k % 2 = 1 => steps[k].env = trace[i].env
         /\ Returned(i) => Len(steps) = 2 * n + 3
         /\ (Len(steps) >= 2 /\ steps[2].value.t # "function") =>
              /\ Len(steps) = 2
              /\ Len(trace) = Min({k \in (i + 1)..Len(trace) :
                                     IsExitOf(k, path \o <<0>>)}) + 1
              /\ Thrown = <<TypeError(MsgApplyingNonFunction)>>

\* C10's case: the operator print(1) returned the number 1, which was
\* applied to print(2): 1 was printed, 2 never.
C10_Witness ==
  /\ lastOp.op = "run"
  /\ lastOp.program = ProgResultApplied
  /\ out = <<Num(1)>>
  /\ Len(returned) = 1
  /\ returned[1].t = "str"
  /\ Text(returned[1].s) = "TypeError: Applying a non-function."

=============================================================================
